---- MODULE Spec2Model ----
(***************************************************************************)
(* Model of the Dataworker (src/src/dataworker/Dataworker.ts): the         *)
(* reconciliation pass _loadData over the SpokePoolClient caches and the   *)
(* root builders / bundle lifecycle entry points built on top of it.       *)
(***************************************************************************)
EXTENDS Integers, Sequences, FiniteSets, TLC

(***************************************************************************)
(* Bounds and input sets                                                   *)
(***************************************************************************)
\* Total number of deposit and fill events the clients ingest in one run.
MaxEvents == 3
\* Number of fill events ingested on top of views that already hold deposits.
MaxFills == 2

\* Keys of Dataworker.spokePoolClients.
ChainIds == {1, 2, 3}
Depositors == {"depositor"}
Recipients == {"recipient"}
Tokens == {"token"}
\* The (repaymentChainId, relayer) pairs fills ask their refund under.
RefundKeys == {<<1, "relayerA">>, <<1, "relayerB">>, <<2, "relayerA">>}
DepositAmounts == {2}
FillAmounts == {1, 2}
RelayerFeePcts == {1}
\* Deposits carry the expected realized LP fee (the first value); a fill may
\* carry another one, and then matches no deposit.
DepositLpFeePcts == {1}
FillLpFeePcts == {1, 2}

VARIABLES
    spokePoolClients,  \* chainId -> [isUpdated, deposits, fills]: the client caches
    multiCallBundler,  \* the transaction queue of the submission collaborator
    ret                \* the Dataworker call suspended at its await, or the last
                       \* call and what it returned / threw

vars == <<spokePoolClients, multiCallBundler, ret>>

(***************************************************************************)
(* Generic helpers                                                         *)
(***************************************************************************)
Range(s) == {s[i] : i \in DOMAIN s}

Min(S) == CHOOSE x \in S : \A y \in S : x <= y

\* Object.keys / Object.values of an object with integer-like keys enumerate
\* the keys in ascending numeric order.
RECURSIVE ObjectKeys(_)
ObjectKeys(S) == IF S = {} THEN <<>> ELSE <<Min(S)>> \o ObjectKeys(S \ {Min(S)})

InsertAt(s, i, x) == SubSeq(s, 1, i) \o <<x>> \o SubSeq(s, i + 1, Len(s))

RECURSIVE SumFillAmounts(_)
SumFillAmounts(fills) ==
    IF fills = <<>> THEN 0 ELSE Head(fills).fillAmount + SumFillAmounts(Tail(fills))

RECURSIVE NumEvents(_, _)
NumEvents(spc, S) ==
    IF S = {} THEN 0
    ELSE LET c == Min(S)
         IN Len(spc[c].deposits) + Len(spc[c].fills) + NumEvents(spc, S \ {c})

EmptyObject == <<>>

(***************************************************************************)
(* SpokePoolClient: the per-chain view consumed by the Dataworker          *)
(***************************************************************************)
isUpdated(client) == client.isUpdated

getDepositsForDestinationChain(client, destinationChainId) ==
    SelectSeq(client.deposits, LAMBDA deposit : deposit.destinationChainId = destinationChainId)

getFills(client) == client.fills

validateFillForDeposit(fill, deposit) ==
    /\ fill.amount = deposit.amount
    /\ fill.relayerFeePct = deposit.relayerFeePct
    /\ fill.realizedLpFeePct = deposit.realizedLpFeePct
    /\ fill.originChainId = deposit.originChainId
    /\ fill.destinationChainId = deposit.destinationChainId
    /\ fill.depositId = deposit.depositId

getValidUnfilledAmountForDeposit(client, deposit) ==
    deposit.amount
      - SumFillAmounts(SelectSeq(client.fills,
            LAMBDA fill : ~fill.isSlowRelay /\ validateFillForDeposit(fill, deposit)))

\* assign(obj, keyPath, value): walk keyPath creating objects on the way and
\* append the list `value` to the list stored at the end of the path.
RECURSIVE assign(_, _, _)
assign(obj, keyPath, value) ==
    LET key == Head(keyPath)
        rest == [k \in DOMAIN obj \ {key} |-> obj[k]]
    IN IF Len(keyPath) = 1
       THEN IF key \in DOMAIN obj
            THEN (key :> (obj[key] \o value)) @@ rest
            ELSE (key :> value) @@ rest
       ELSE IF key \in DOMAIN obj
            THEN (key :> assign(obj[key], Tail(keyPath), value)) @@ rest
            ELSE (key :> assign(EmptyObject, Tail(keyPath), value)) @@ rest

(***************************************************************************)
(* Dataworker._loadData                                                    *)
(***************************************************************************)
Loaded(unfilledDeposits, fillsToRefund) ==
    [status |-> "ok", unfilledDeposits |-> unfilledDeposits, fillsToRefund |-> fillsToRefund]

Thrown(role, chainId) == [status |-> "error", role |-> role, chainId |-> chainId]

RECURSIVE unfilledDepositsForDestinationChain(_, _)
\* The filter written with gte(0): completely filled deposits are kept.
unfilledDepositsKeepingFilled(destinationClient, deposits) ==
    IF deposits = <<>> THEN <<>>
    ELSE LET deposit == Head(deposits)
             unfilledAmount == getValidUnfilledAmountForDeposit(destinationClient, deposit)
             tail == unfilledDepositsForDestinationChain(destinationClient, Tail(deposits))
         IN IF unfilledAmount >= 0
            THEN <<[deposit |-> deposit, unfilledAmount |-> unfilledAmount]>> \o tail
            ELSE tail

\* .map(deposit => {deposit, unfilledAmount}).filter(unfilledAmount.gt(0))
unfilledDepositsForDestinationChain(destinationClient, deposits) ==
    IF deposits = <<>> THEN <<>>
    ELSE LET deposit == Head(deposits)
             unfilledAmount == getValidUnfilledAmountForDeposit(destinationClient, deposit)
             tail == unfilledDepositsForDestinationChain(destinationClient, Tail(deposits))
         IN IF unfilledAmount > 0
            THEN <<[deposit |-> deposit, unfilledAmount |-> unfilledAmount]>> \o tail
            ELSE tail

\* The filter callback without the explicit slow-relay exclusion.
isValidFillKeepingSlow(fill, depositsForDestinationChain) ==
    \E i \in DOMAIN depositsForDestinationChain :
        validateFillForDeposit(fill, depositsForDestinationChain[i])

\* The filter callback over the fills of the destination chain.
isValidFill(fill, depositsForDestinationChain) ==
    /\ ~fill.isSlowRelay
    /\ \E i \in DOMAIN depositsForDestinationChain :
          validateFillForDeposit(fill, depositsForDestinationChain[i])

\* The fills of the destination chain taken without matching them to a deposit.
validFillsUnmatched(destinationClient, depositsForDestinationChain) ==
    SelectSeq(getFills(destinationClient), LAMBDA fill : ~fill.isSlowRelay)

validFillsOnDestinationChain(destinationClient, depositsForDestinationChain) ==
    SelectSeq(getFills(destinationClient),
              LAMBDA fill : isValidFill(fill, depositsForDestinationChain))

RECURSIVE assignFills(_, _)
\* The fills keyed by the chain they were observed on instead of the repayment chain.
assignFillsByDestination(fillsToRefund, fills) ==
    IF fills = <<>> THEN fillsToRefund
    ELSE assignFills(
             assign(fillsToRefund, <<Head(fills).destinationChainId, Head(fills).relayer>>,
                    <<Head(fills)>>),
             Tail(fills))

assignFills(fillsToRefund, fills) ==
    IF fills = <<>> THEN fillsToRefund
    ELSE assignFills(
             assign(fillsToRefund, <<Head(fills).repaymentChainId, Head(fills).relayer>>,
                    <<Head(fills)>>),
             Tail(fills))

\* Body of the inner loop for one (origin, destination) pair.
loadPair(spc, originChainId, destinationChainId, acc) ==
    LET originClient == spc[originChainId]
        destinationClient == spc[destinationChainId]
        depositsForDestinationChain ==
            getDepositsForDestinationChain(originClient, destinationChainId)
        unfilled == unfilledDepositsForDestinationChain(destinationClient,
                                                        depositsForDestinationChain)
        validFills == validFillsOnDestinationChain(destinationClient,
                                                   depositsForDestinationChain)
    IN Loaded(IF Len(unfilled) > 0
              THEN assign(acc.unfilledDeposits, <<destinationChainId>>, unfilled)
              ELSE acc.unfilledDeposits,
              assignFills(acc.fillsToRefund, validFills))

RECURSIVE loadDestinations(_, _, _, _)
\* The destination check throwing with the origin chain's id in the message.
loadDestinationsNamingOrigin(spc, originChainId, destinations, acc) ==
    IF destinations = <<>> \/ acc.status = "error" THEN acc
    ELSE LET destinationChainId == Head(destinations)
         IN IF originChainId = destinationChainId
            THEN loadDestinations(spc, originChainId, Tail(destinations), acc)
            ELSE IF ~isUpdated(spc[destinationChainId])
            THEN Thrown("destination", originChainId)
            ELSE loadDestinations(spc, originChainId, Tail(destinations),
                                  loadPair(spc, originChainId, destinationChainId, acc))

\* for (const destinationChainId of Object.keys(this.spokePoolClients))
loadDestinations(spc, originChainId, destinations, acc) ==
    IF destinations = <<>> \/ acc.status = "error" THEN acc
    ELSE LET destinationChainId == Head(destinations)
         IN IF originChainId = destinationChainId
            THEN loadDestinations(spc, originChainId, Tail(destinations), acc)
            ELSE IF ~isUpdated(spc[destinationChainId])
            THEN Thrown("destination", destinationChainId)
            ELSE loadDestinations(spc, originChainId, Tail(destinations),
                                  loadPair(spc, originChainId, destinationChainId, acc))

\* for (const originChainId of allChainIds)
RECURSIVE loadOrigins(_, _, _)
loadOrigins(spc, origins, acc) ==
    IF origins = <<>> \/ acc.status = "error" THEN acc
    ELSE LET originChainId == Head(origins)
         IN IF ~isUpdated(spc[originChainId])
            THEN Thrown("origin", originChainId)
            ELSE loadOrigins(spc, Tail(origins),
                             loadDestinations(spc, originChainId,
                                              ObjectKeys(DOMAIN spc), acc))

_loadData(spc) ==
    loadOrigins(spc, ObjectKeys(DOMAIN spc), Loaded(EmptyObject, EmptyObject))

(***************************************************************************)
(* Dataworker.buildSlowRelayRoot                                           *)
(***************************************************************************)
Null == [kind |-> "null"]
Undefined == [kind |-> "undefined"]
Returned(result) == [status |-> "ok", result |-> result]

\* The projection of one UnfilledDeposit to a RelayData leaf.
relayData(unfilledDeposit) ==
    [depositor |-> unfilledDeposit.deposit.depositor,
     recipient |-> unfilledDeposit.deposit.recipient,
     destinationToken |-> unfilledDeposit.deposit.depositor,
     amount |-> unfilledDeposit.deposit.amount,
     originChainId |-> unfilledDeposit.deposit.originChainId,
     destinationChainId |-> unfilledDeposit.deposit.destinationChainId,
     realizedLpFeePct |-> unfilledDeposit.deposit.realizedLpFeePct,
     relayerFeePct |-> unfilledDeposit.deposit.relayerFeePct,
     depositId |-> unfilledDeposit.deposit.depositId]

RECURSIVE mapRelayData(_)
mapRelayData(deposits) ==
    IF deposits = <<>> THEN <<>>
    ELSE <<relayData(Head(deposits))>> \o mapRelayData(Tail(deposits))

\* Only the first destination chain's deposits are projected.
flatLeavesFirstOnly(unfilledDeposits, keys) ==
    IF keys = <<>> THEN <<>> ELSE mapRelayData(unfilledDeposits[Head(keys)])

\* Object.values(unfilledDeposits).map(...).flat(): `keys` is Object.keys order.
RECURSIVE flatLeaves(_, _)
flatLeaves(unfilledDeposits, keys) ==
    IF keys = <<>> THEN <<>>
    ELSE mapRelayData(unfilledDeposits[Head(keys)]) \o flatLeaves(unfilledDeposits, Tail(keys))

\* A comparator that looks at the origin chain only.
compareLeavesByOrigin(relayA, relayB) == relayA.originChainId - relayB.originChainId

\* The comparator handed to leaves.sort(): negative when relayA comes first.
compareLeaves(relayA, relayB) ==
    IF relayA.originChainId = relayB.originChainId
    THEN relayA.depositId - relayB.depositId
    ELSE relayA.originChainId - relayB.originChainId

\* Array.prototype.sort is stable: an element goes after the elements it does
\* not precede under the comparator.
RECURSIVE insertSorted(_, _)
insertSorted(sorted, x) ==
    IF sorted = <<>> THEN <<x>>
    ELSE IF compareLeaves(x, Head(sorted)) < 0
    THEN <<x>> \o sorted
    ELSE <<Head(sorted)>> \o insertSorted(Tail(sorted), x)

RECURSIVE sortLeaves(_, _)
sortLeaves(sorted, leaves) ==
    IF leaves = <<>> THEN sorted
    ELSE sortLeaves(insertSorted(sorted, Head(leaves)), Tail(leaves))

\* The Merkle-tree primitive keeps the ordered leaf list it is built from.
buildSlowRelayTree(sortedLeaves) == [kind |-> "tree", leaves |-> sortedLeaves]

\* The projection, flattening and sort of lines 118-142.
sortedSlowRelayLeaves(unfilledDeposits) ==
    sortLeaves(<<>>, flatLeaves(unfilledDeposits, ObjectKeys(DOMAIN unfilledDeposits)))

\* What a call of buildSlowRelayRoot yields from the views `spc` when no view
\* changes while it awaits the tree.
buildSlowRelayRoot(spc) ==
    LET data == _loadData(spc)
    IN IF data.status = "error" THEN data
       ELSE IF DOMAIN data.unfilledDeposits = {} THEN Returned(Null)
       ELSE LET sortedLeaves == sortedSlowRelayLeaves(data.unfilledDeposits)
            IN IF Len(sortedLeaves) > 0
               THEN Returned(buildSlowRelayTree(sortedLeaves))
               ELSE Returned(Null)

(***************************************************************************)
(* The entry points that only run _loadData, and the empty ones            *)
(***************************************************************************)
buildRelayerRefundRoot(spc) ==
    LET data == _loadData(spc)
    IN IF data.status = "error" THEN data ELSE Returned(Undefined)

buildPoolRebalanceRoot(spc) ==
    LET data == _loadData(spc)
    IN IF data.status = "error" THEN data ELSE Returned(Undefined)

proposeRootBundle(spc) == Returned(Undefined)

validateRootBundle(spc, poolRebalanceRoot, relayerRefundRoot, slowRelayRoot) ==
    LET data == _loadData(spc)
    IN IF data.status = "error" THEN data ELSE Returned(Undefined)

\* executeSlowRelayLeaves, executePoolRebalanceLeaves, executeRelayerRefundLeaves:
\* what the call returns and what the transaction queue holds afterwards.
executeSlowRelayLeaves(queue) == [value |-> Returned(Undefined), queue |-> queue]
executePoolRebalanceLeaves(queue) == [value |-> Returned(Undefined), queue |-> queue]
executeRelayerRefundLeaves(queue) == [value |-> Returned(Undefined), queue |-> queue]

(***************************************************************************)
(* State machine                                                           *)
(***************************************************************************)
NoCall == [op |-> "none"]

Init ==
    /\ spokePoolClients =
           [c \in ChainIds |-> [isUpdated |-> FALSE, deposits |-> <<>>, fills |-> <<>>]]
    /\ multiCallBundler = <<>>
    /\ ret = NoCall

\* buildSlowRelayRoot suspended at `await buildSlowRelayTree(sortedLeaves)`:
\* the views were read, the outcome does not exist yet.
AwaitingSlowRelayTree == ret.op = "buildSlowRelayRoot.await"

\* _loadData and the bodies without an await run synchronously: no view
\* changes inside them. An update() callback runs between calls and while a
\* call is suspended at its await.
ViewsMayChange == ret = NoCall \/ AwaitingSlowRelayTree

\* SpokePoolClient.update() on chain c that finds no new event.
Update(c) ==
    /\ ViewsMayChange
    /\ ~spokePoolClients[c].isUpdated
    /\ spokePoolClients' = [spokePoolClients EXCEPT ![c].isUpdated = TRUE]
    /\ UNCHANGED <<multiCallBundler, ret>>

\* SpokePoolClient.update() on chain c that ingests one new deposit event.
UpdateDeposit(c) ==
    /\ ViewsMayChange
    /\ NumEvents(spokePoolClients, ChainIds) < MaxEvents
    /\ \E destinationChainId \in ChainIds \ {c}, depositor \in Depositors,
          recipient \in Recipients, destinationToken \in Tokens,
          amount \in DepositAmounts, relayerFeePct \in RelayerFeePcts,
          realizedLpFeePct \in DepositLpFeePcts,
          pos \in 0 .. Len(spokePoolClients[c].deposits) :
          LET deposit == [depositId |-> Len(spokePoolClients[c].deposits),
                          depositor |-> depositor,
                          recipient |-> recipient,
                          destinationToken |-> destinationToken,
                          amount |-> amount,
                          originChainId |-> c,
                          destinationChainId |-> destinationChainId,
                          relayerFeePct |-> relayerFeePct,
                          realizedLpFeePct |-> realizedLpFeePct]
          IN spokePoolClients' =
                 [spokePoolClients EXCEPT
                     ![c].isUpdated = TRUE,
                     ![c].deposits = InsertAt(@, pos, deposit)]
    /\ UNCHANGED <<multiCallBundler, ret>>

\* Every deposit some client has seen whose destination is chain c.
DepositsTo(c) ==
    UNION {{d \in Range(spokePoolClients[o].deposits) : d.destinationChainId = c}
             : o \in ChainIds}

\* One new fill event appended to the cache of chain c, asking its refund
\* under one of refundKeys.
IngestFillUnder(c, refundKeys) ==
    /\ ViewsMayChange
    /\ \E deposit \in DepositsTo(c), fillAmount \in FillAmounts, refundKey \in refundKeys,
          isSlowRelay \in BOOLEAN,
          realizedLpFeePct \in FillLpFeePcts :
          LET fill == [depositId |-> deposit.depositId,
                       depositor |-> deposit.depositor,
                       recipient |-> deposit.recipient,
                       destinationToken |-> deposit.destinationToken,
                       amount |-> deposit.amount,
                       originChainId |-> deposit.originChainId,
                       destinationChainId |-> c,
                       relayerFeePct |-> deposit.relayerFeePct,
                       realizedLpFeePct |-> realizedLpFeePct,
                       fillAmount |-> fillAmount,
                       repaymentChainId |-> refundKey[1],
                       relayer |-> refundKey[2],
                       isSlowRelay |-> isSlowRelay]
          IN spokePoolClients' =
                 [spokePoolClients EXCEPT
                     ![c].isUpdated = TRUE,
                     ![c].fills = Append(@, fill)]
    /\ UNCHANGED <<multiCallBundler, ret>>

IngestFill(c) == IngestFillUnder(c, RefundKeys)

\* SpokePoolClient.update() on chain c that ingests one new fill event.
UpdateFill(c) ==
    /\ NumEvents(spokePoolClients, ChainIds) < MaxEvents
    /\ IngestFill(c)

LoadData ==
    /\ ret = NoCall
    /\ ret' = [op |-> "_loadData", value |-> _loadData(spokePoolClients)]
    /\ UNCHANGED <<spokePoolClients, multiCallBundler>>

\* buildSlowRelayRoot up to its first suspension: _loadData (line 114), the
\* early return of null (line 117), the leaves (lines 118-142) and, with at
\* least one leaf, the call of buildSlowRelayTree whose result it awaits
\* (line 144). `unfilledDeposits` is the local of line 114.
BuildSlowRelayRoot ==
    /\ ret = NoCall
    /\ LET data == _loadData(spokePoolClients)
       IN IF data.status = "error"
          THEN ret' = [op |-> "buildSlowRelayRoot", value |-> data]
          ELSE IF DOMAIN data.unfilledDeposits = {}
          THEN ret' = [op |-> "buildSlowRelayRoot", value |-> Returned(Null),
                       unfilledDeposits |-> data.unfilledDeposits]
          ELSE LET sortedLeaves == sortedSlowRelayLeaves(data.unfilledDeposits)
               IN IF Len(sortedLeaves) > 0
                  THEN ret' = [op |-> "buildSlowRelayRoot.await",
                               unfilledDeposits |-> data.unfilledDeposits,
                               sortedLeaves |-> sortedLeaves]
                  ELSE ret' = [op |-> "buildSlowRelayRoot", value |-> Returned(Null),
                               unfilledDeposits |-> data.unfilledDeposits]
    /\ UNCHANGED <<spokePoolClients, multiCallBundler>>

\* Line 144 resumes after the await and returns the tree built from the
\* leaves handed over before the suspension.
ResumeBuildSlowRelayRoot ==
    /\ AwaitingSlowRelayTree
    /\ ret' = [op |-> "buildSlowRelayRoot",
               value |-> Returned(buildSlowRelayTree(ret.sortedLeaves)),
               unfilledDeposits |-> ret.unfilledDeposits]
    /\ UNCHANGED <<spokePoolClients, multiCallBundler>>

BuildRelayerRefundRoot ==
    /\ ret = NoCall
    /\ ret' = [op |-> "buildRelayerRefundRoot",
               value |-> buildRelayerRefundRoot(spokePoolClients)]
    /\ UNCHANGED <<spokePoolClients, multiCallBundler>>

BuildPoolRebalanceRoot ==
    /\ ret = NoCall
    /\ ret' = [op |-> "buildPoolRebalanceRoot",
               value |-> buildPoolRebalanceRoot(spokePoolClients)]
    /\ UNCHANGED <<spokePoolClients, multiCallBundler>>

ProposeRootBundle ==
    /\ ret = NoCall
    /\ ret' = [op |-> "proposeRootBundle", value |-> proposeRootBundle(spokePoolClients)]
    /\ UNCHANGED <<spokePoolClients, multiCallBundler>>

\* The roots this Dataworker computes for the current chain state.
OwnRoots ==
    [poolRebalanceRoot |-> buildPoolRebalanceRoot(spokePoolClients),
     relayerRefundRoot |-> buildRelayerRefundRoot(spokePoolClients),
     slowRelayRoot |-> buildSlowRelayRoot(spokePoolClients)]

\* A claimed root that differs from every root computed locally.
ForeignRoot == Returned([kind |-> "tree", leaves |-> <<"foreign">>])

ForeignSets ==
    {{}, {"slowRelayRoot"}, {"poolRebalanceRoot", "relayerRefundRoot"},
     {"poolRebalanceRoot", "relayerRefundRoot", "slowRelayRoot"}}

\* validateRootBundle called with the own roots, except for those named in `foreign`.
ValidateRootBundle ==
    /\ ret = NoCall
    /\ \E foreign \in ForeignSets :
          LET args == [r \in DOMAIN OwnRoots |->
                          IF r \in foreign THEN ForeignRoot ELSE OwnRoots[r]]
          IN ret' = [op |-> "validateRootBundle",
                     foreign |-> foreign,
                     value |-> validateRootBundle(spokePoolClients, args.poolRebalanceRoot,
                                                  args.relayerRefundRoot, args.slowRelayRoot)]
    /\ UNCHANGED <<spokePoolClients, multiCallBundler>>

ExecuteSlowRelayLeaves ==
    LET done == executeSlowRelayLeaves(multiCallBundler)
    IN /\ ret = NoCall
       /\ ret' = [op |-> "executeSlowRelayLeaves", value |-> done.value]
       /\ multiCallBundler' = done.queue
       /\ UNCHANGED spokePoolClients

ExecutePoolRebalanceLeaves ==
    LET done == executePoolRebalanceLeaves(multiCallBundler)
    IN /\ ret = NoCall
       /\ ret' = [op |-> "executePoolRebalanceLeaves", value |-> done.value]
       /\ multiCallBundler' = done.queue
       /\ UNCHANGED spokePoolClients

ExecuteRelayerRefundLeaves ==
    LET done == executeRelayerRefundLeaves(multiCallBundler)
    IN /\ ret = NoCall
       /\ ret' = [op |-> "executeRelayerRefundLeaves", value |-> done.value]
       /\ multiCallBundler' = done.queue
       /\ UNCHANGED spokePoolClients

\* The caller takes the outcome of the call; the Dataworker keeps nothing of it.
Return ==
    /\ ret # NoCall
    /\ ~AwaitingSlowRelayTree
    /\ ret' = NoCall
    /\ UNCHANGED <<spokePoolClients, multiCallBundler>>

ChainEvent ==
    \/ \E c \in ChainIds : Update(c)
    \/ \E c \in ChainIds : UpdateDeposit(c)
    \/ \E c \in ChainIds : UpdateFill(c)

\* Reconciliation over the changing chain views.
Next ==
    \/ ChainEvent
    \/ LoadData
    \/ Return

Spec == Init /\ [][Next]_vars

\* The slow-relay leaves carry nothing of a fill's relayer or repayment chain
\* and validateFillForDeposit does not compare them, so the fills seen while
\* the slow-relay root is built all ask their refund under one key.
SlowRelayRefundKeys == {<<1, "relayerA">>}

UpdateFillForSlowRelay(c) ==
    /\ NumEvents(spokePoolClients, ChainIds) < MaxEvents
    /\ IngestFillUnder(c, SlowRelayRefundKeys)

ChainEventSlowRelay ==
    \/ \E c \in ChainIds : Update(c)
    \/ \E c \in ChainIds : UpdateDeposit(c)
    \/ \E c \in ChainIds : UpdateFillForSlowRelay(c)

\* The slow-relay root builder over the changing chain views: the views keep
\* changing while the call awaits its tree.
NextSlowRelay ==
    \/ ChainEventSlowRelay
    \/ BuildSlowRelayRoot
    \/ ResumeBuildSlowRelayRoot
    \/ Return

SpecSlowRelay == Init /\ [][NextSlowRelay]_vars

\* A deposit as the origin chain's view holds it.
DepositOf(originChainId, destinationChainId, depositId) ==
    [depositId |-> depositId,
     depositor |-> CHOOSE x \in Depositors : TRUE,
     recipient |-> CHOOSE x \in Recipients : TRUE,
     destinationToken |-> CHOOSE x \in Tokens : TRUE,
     amount |-> CHOOSE x \in DepositAmounts : TRUE,
     originChainId |-> originChainId,
     destinationChainId |-> destinationChainId,
     relayerFeePct |-> CHOOSE x \in RelayerFeePcts : TRUE,
     realizedLpFeePct |-> CHOOSE x \in DepositLpFeePcts : TRUE]

RECURSIVE NumFills(_, _)
NumFills(spc, S) ==
    IF S = {} THEN 0
    ELSE LET c == Min(S) IN Len(spc[c].fills) + NumFills(spc, S \ {c})

\* Every view is updated; chains 1 and 2 have each seen one deposit, to the
\* same destination or to different ones, and no fill has been seen yet.
InitDeposited ==
    /\ \E d1 \in ChainIds \ {1}, d2 \in ChainIds \ {2} :
          spokePoolClients =
              [c \in ChainIds |->
                  [isUpdated |-> TRUE,
                   deposits |-> IF c = 1 THEN <<DepositOf(1, d1, 0)>>
                                ELSE IF c = 2 THEN <<DepositOf(2, d2, 0)>>
                                ELSE <<>>,
                   fills |-> <<>>]]
    /\ multiCallBundler = <<>>
    /\ ret = NoCall

\* SpokePoolClient.update() on chain c that ingests one new fill event for
\* one of the deposits already seen.
UpdateFillOfDeposited(c) ==
    /\ NumFills(spokePoolClients, ChainIds) < MaxFills
    /\ IngestFill(c)

\* Reconciliation over views that hold deposits of two origin chains.
NextDeposited ==
    \/ \E c \in ChainIds : UpdateFillOfDeposited(c)
    \/ LoadData
    \/ Return

SpecDeposited == InitDeposited /\ [][NextDeposited]_vars

\* The remaining root builders and the bundle lifecycle entry points.
NextLifecycle ==
    \/ ChainEvent
    \/ BuildRelayerRefundRoot
    \/ BuildPoolRebalanceRoot
    \/ ProposeRootBundle
    \/ ValidateRootBundle
    \/ ExecuteSlowRelayLeaves
    \/ ExecutePoolRebalanceLeaves
    \/ ExecuteRelayerRefundLeaves
    \/ Return

SpecLifecycle == Init /\ [][NextLifecycle]_vars

(***************************************************************************)
(* Properties of reconciliation (_loadData)                                *)
(***************************************************************************)
LoadDataReturned == ret.op = "_loadData" /\ ret.value.status = "ok"
LoadDataThrew == ret.op = "_loadData" /\ ret.value.status = "error"

StaleChains == {c \in ChainIds : ~spokePoolClients[c].isUpdated}

\* Deposits sent from any other chain to destination chain d.
DepositsFromOthersTo(d) ==
    UNION {{x \in Range(spokePoolClients[o].deposits) : x.destinationChainId = d}
             : o \in ChainIds \ {d}}

\* The unfilled remainder of a deposit as reported by its destination chain's view.
Remainder(deposit) ==
    getValidUnfilledAmountForDeposit(spokePoolClients[deposit.destinationChainId], deposit)

ExpectedUnfilled(d) ==
    {[deposit |-> x, unfilledAmount |-> Remainder(x)] :
        x \in {y \in DepositsFromOthersTo(d) : Remainder(y) > 0}}

AllExpectedUnfilled == UNION {ExpectedUnfilled(d) : d \in ChainIds}

EntriesUnder(unfilledDeposits, d) ==
    IF d \in DOMAIN unfilledDeposits THEN unfilledDeposits[d] ELSE <<>>

\* Every list of the fills-to-refund mapping, concatenated.
RECURSIVE ConcatLists(_, _)
ConcatLists(obj, keys) ==
    IF keys = {} THEN <<>>
    ELSE LET k == CHOOSE x \in keys : TRUE
         IN obj[k] \o ConcatLists(obj, keys \ {k})

RECURSIVE RecordedFills(_, _)
RecordedFills(fillsToRefund, chains) ==
    IF chains = {} THEN <<>>
    ELSE LET r == CHOOSE x \in chains : TRUE
         IN ConcatLists(fillsToRefund[r], DOMAIN fillsToRefund[r])
              \o RecordedFills(fillsToRefund, chains \ {r})

AllRecordedFills(fillsToRefund) == RecordedFills(fillsToRefund, DOMAIN fillsToRefund)

\* C1: _loadData throws exactly when some chain view is not updated, wherever
\* that chain stands in the iteration order; the error names a chain that is
\* not updated, and the thrown outcome carries no unfilledDeposits or
\* fillsToRefund mapping, not even a partial one.
C1_StaleChainFailsFast ==
    ret.op = "_loadData" =>
        /\ (ret.value.status = "error") <=> (StaleChains # {})
        /\ ret.value.status = "error" =>
              /\ ret.value.chainId \in StaleChains
              /\ DOMAIN ret.value \cap {"unfilledDeposits", "fillsToRefund"} = {}

\* The last chain of the iteration order is the stale one, after the pair
\* (1, 2) with a deposit in it has already been processed.
C1_Witness ==
    /\ LoadDataThrew
    /\ StaleChains = {3}
    /\ ret.value.chainId = 3
    /\ \E x \in Range(spokePoolClients[1].deposits) : x.destinationChainId = 2

\* C2: after a successful _loadData, unfilledDeposits[d] holds exactly the
\* deposits sent from every other chain to d whose remainder on d's view is
\* positive, each once and paired with that remainder; a key exists only for
\* a non-empty list, so a deposit with remainder zero is under no key.
C2_UnfilledDepositsExact ==
    LoadDataReturned =>
        /\ DOMAIN ret.value.unfilledDeposits \subseteq ChainIds
        /\ \A d \in ChainIds :
              LET entries == EntriesUnder(ret.value.unfilledDeposits, d)
              IN /\ Range(entries) = ExpectedUnfilled(d)
                 /\ Len(entries) = Cardinality(ExpectedUnfilled(d))
                 /\ d \in DOMAIN ret.value.unfilledDeposits <=> ExpectedUnfilled(d) # {}

\* Deposits from two origin chains accumulate under one destination key.
C2_Witness ==
    /\ LoadDataReturned
    /\ \E d \in DOMAIN ret.value.unfilledDeposits :
          \E i, j \in DOMAIN ret.value.unfilledDeposits[d] :
              ret.value.unfilledDeposits[d][i].deposit.originChainId
                  # ret.value.unfilledDeposits[d][j].deposit.originChainId

\* C3: a fill observed on destination chain d is in the fills-to-refund
\* mapping iff it is not a slow relay and the validity predicate matches it to
\* some deposit sent from another chain to d; nothing else is in the mapping.
MatchesSomeDeposit(fill, d) ==
    \E x \in DepositsFromOthersTo(d) : validateFillForDeposit(fill, x)

C3_FillsToRefundExact ==
    LoadDataReturned =>
        LET recorded == Range(AllRecordedFills(ret.value.fillsToRefund))
        IN /\ \A d \in ChainIds : \A fill \in Range(spokePoolClients[d].fills) :
                  fill \in recorded <=> (~fill.isSlowRelay /\ MatchesSomeDeposit(fill, d))
           /\ \A fill \in recorded : ~fill.isSlowRelay
           /\ recorded \subseteq UNION {Range(spokePoolClients[d].fills) : d \in ChainIds}

\* A slow fill matching a deposit is left out, an unmatched fill is dropped,
\* and a fill that completely fills its deposit is recorded.
C3_Witness ==
    /\ LoadDataReturned
    /\ \E d \in ChainIds : \E slow, full \in Range(spokePoolClients[d].fills) :
          /\ slow.isSlowRelay /\ MatchesSomeDeposit(slow, d)
          /\ ~full.isSlowRelay /\ MatchesSomeDeposit(full, d)
          /\ full.fillAmount = full.amount
          /\ full \in Range(AllRecordedFills(ret.value.fillsToRefund))
          /\ slow \notin Range(AllRecordedFills(ret.value.fillsToRefund))

\* C4: for every UnfilledDeposit of a successful _loadData, unfilledAmount
\* plus the fillAmounts of the fills recorded for that deposit in the
\* fills-to-refund mapping equals deposit.amount.
RecordedFor(deposit) ==
    SelectSeq(AllRecordedFills(ret.value.fillsToRefund),
              LAMBDA fill : validateFillForDeposit(fill, deposit))

C4_Conservation ==
    LoadDataReturned =>
        \A d \in DOMAIN ret.value.unfilledDeposits :
            \A e \in Range(ret.value.unfilledDeposits[d]) :
                e.unfilledAmount + SumFillAmounts(RecordedFor(e.deposit)) = e.deposit.amount

\* A deposit with a partial valid fill and a matching slow fill stays unfilled
\* by the rest.
C4_Witness ==
    /\ LoadDataReturned
    /\ \E d \in DOMAIN ret.value.unfilledDeposits :
          \E e \in Range(ret.value.unfilledDeposits[d]) :
              /\ e.unfilledAmount < e.deposit.amount
              /\ Len(RecordedFor(e.deposit)) > 0
              /\ \E fill \in Range(spokePoolClients[d].fills) :
                    fill.isSlowRelay /\ validateFillForDeposit(fill, e.deposit)

(***************************************************************************)
(* Properties of buildSlowRelayRoot                                        *)
(***************************************************************************)
SlowRootReturned == ret.op = "buildSlowRelayRoot" /\ ret.value.status = "ok"
SlowRootIsTree == SlowRootReturned /\ ret.value.result.kind = "tree"

LeafKey(x) == <<x.originChainId, x.depositId>>

KeyBefore(a, b) == a[1] < b[1] \/ (a[1] = b[1] /\ a[2] < b[2])

\* The UnfilledDeposit entries the call's own reconciliation (line 114)
\* yielded, over all destination chains. The views may have changed since.
CallUnfilled == ConcatLists(ret.unfilledDeposits, DOMAIN ret.unfilledDeposits)

\* The leaves as handed to the Merkle-tree primitive, while the call awaits the
\* tree and in the tree it returns.
SlowRelayLeaves ==
    IF AwaitingSlowRelayTree THEN ret.sortedLeaves ELSE ret.value.result.leaves

\* C5: the leaves handed to the Merkle-tree primitive are strictly ascending
\* in (originChainId, depositId), and their keys are those of the set of
\* unfilled deposits the call's reconciliation yielded: the sequence is fixed
\* by that set, whatever order the views list their deposits and fills in.
C5_LeavesStrictlySorted ==
    (AwaitingSlowRelayTree \/ SlowRootIsTree) =>
        /\ \A i, j \in DOMAIN SlowRelayLeaves :
              i < j => KeyBefore(LeafKey(SlowRelayLeaves[i]), LeafKey(SlowRelayLeaves[j]))
        /\ {LeafKey(SlowRelayLeaves[i]) : i \in DOMAIN SlowRelayLeaves}
              = {LeafKey(e.deposit) : e \in Range(CallUnfilled)}

\* Two leaves of one origin chain whose deposits the view lists in descending
\* depositId order.
C5_Witness ==
    /\ SlowRootIsTree
    /\ \E c \in ChainIds : \E i, j \in DOMAIN spokePoolClients[c].deposits :
          /\ i < j
          /\ spokePoolClients[c].deposits[i].depositId
                 > spokePoolClients[c].deposits[j].depositId
          /\ \A k \in {i, j} : \E n \in DOMAIN ret.value.result.leaves :
                LeafKey(ret.value.result.leaves[n]) = LeafKey(spokePoolClients[c].deposits[k])

\* The outcome of buildSlowRelayRoot against the call's own reconciliation.
\* The null and error outcomes exist in the step that read the views, so the
\* current views are the ones they were computed from.
SlowRootOutcome ==
    ret.op = "buildSlowRelayRoot" =>
        /\ StaleChains = {} => ret.value.status = "ok"
        /\ ret.value.status = "ok" =>
              /\ ret.value.result = Null <=> CallUnfilled = <<>>
              /\ ret.value.result = Null => AllExpectedUnfilled = {}
              /\ ret.value.result # Null =>
                    /\ ret.value.result.kind = "tree"
                    /\ Len(ret.value.result.leaves) = Len(CallUnfilled)
                    /\ \A e \in Range(CallUnfilled) :
                          \E n \in DOMAIN ret.value.result.leaves :
                              LeafKey(ret.value.result.leaves[n]) = LeafKey(e.deposit)

\* The step that enters buildSlowRelayRoot reconciles the views as they are in
\* that step: the mapping it keeps holds each deposit with a positive
\* remainder once, and the leaves it is about to hand over are theirs.
SlowRootReadsViews ==
    (ret = NoCall /\ "unfilledDeposits" \in DOMAIN ret') =>
        LET entries == ConcatLists(ret'.unfilledDeposits, DOMAIN ret'.unfilledDeposits)
        IN /\ Range(entries) = AllExpectedUnfilled
           /\ Len(entries) = Cardinality(AllExpectedUnfilled)
           /\ ret'.op = "buildSlowRelayRoot.await" <=> entries # <<>>
           /\ ret'.op = "buildSlowRelayRoot.await" =>
                 Len(ret'.sortedLeaves) = Len(entries)

\* C6: with every view updated buildSlowRelayRoot does not throw; it returns
\* null exactly when its reconciliation yields no deposit with a positive
\* unfilled remainder on any destination chain, and otherwise a tree with
\* exactly one leaf per unfilled deposit that reconciliation yielded. The
\* reconciliation is of the views as they were when the call read them; by
\* the time the tree exists they may have changed.
C6_NullIffNothingUnfilled == []SlowRootOutcome /\ [][SlowRootReadsViews]_vars

\* One deposit from chain 1 to chain 2 and no fill: a tree with one leaf.
C6_Witness ==
    /\ SlowRootIsTree
    /\ Len(ret.value.result.leaves) = 1
    /\ Len(spokePoolClients[1].deposits) = 1
    /\ spokePoolClients[1].deposits[1].destinationChainId = 2
    /\ \A c \in ChainIds : spokePoolClients[c].fills = <<>>

\* C7: every slow-relay leaf equals, field for field, the deposit it is
\* projected from.
LeafFields ==
    {"depositor", "recipient", "destinationToken", "amount", "originChainId",
     "destinationChainId", "realizedLpFeePct", "relayerFeePct", "depositId"}

C7_LeafCarriesDepositFields ==
    SlowRootIsTree =>
        \A n \in DOMAIN ret.value.result.leaves :
            \E e \in Range(CallUnfilled) :
                /\ LeafKey(e.deposit) = LeafKey(ret.value.result.leaves[n])
                /\ \A f \in LeafFields : ret.value.result.leaves[n][f] = e.deposit[f]

(***************************************************************************)
(* Properties of the remaining root builders and the bundle lifecycle      *)
(***************************************************************************)
RECURSIVE InsertAscending(_, _)
InsertAscending(sorted, n) ==
    IF sorted = <<>> THEN <<n>>
    ELSE IF n < Head(sorted) THEN <<n>> \o sorted
    ELSE <<Head(sorted)>> \o InsertAscending(Tail(sorted), n)

RECURSIVE AscendingFillAmounts(_)
AscendingFillAmounts(fills) ==
    IF fills = <<>> THEN <<>>
    ELSE InsertAscending(AscendingFillAmounts(Tail(fills)), Head(fills).fillAmount)

\* One refund leaf per repayment chain, in the order of `chains`.
RECURSIVE RefundLeaves(_, _)
RefundLeaves(fillsToRefund, chains) ==
    IF chains = <<>> THEN <<>>
    ELSE LET r == Head(chains)
             leaf == [repaymentChainId |-> r,
                      refunds |-> [a \in DOMAIN fillsToRefund[r] |->
                                     [fillAmounts |-> AscendingFillAmounts(fillsToRefund[r][a]),
                                      total |-> SumFillAmounts(fillsToRefund[r][a])]]]
         IN <<leaf>> \o RefundLeaves(fillsToRefund, Tail(chains))

CurrentFillsToRefund == _loadData(spokePoolClients).fillsToRefund

\* C8: buildRelayerRefundRoot returns a tree with one leaf per repayment chain
\* of the fills-to-refund mapping, in ascending repaymentChainId order, each
\* leaf giving per relayer the fill amounts in ascending order and their
\* total; it returns an absent value when the mapping is empty.
C8_RefundRootLeaves ==
    (ret.op = "buildRelayerRefundRoot" /\ ret.value.status = "ok") =>
        IF DOMAIN CurrentFillsToRefund = {}
        THEN ret.value.result \in {Null, Undefined}
        ELSE ret.value.result =
                 [kind |-> "tree",
                  leaves |-> RefundLeaves(CurrentFillsToRefund,
                                          ObjectKeys(DOMAIN CurrentFillsToRefund))]

RootNames == {"poolRebalanceRoot", "relayerRefundRoot", "slowRelayRoot"}

\* C9: validateRootBundle reports, for each of the three roots separately,
\* whether the claimed root matches the recomputed one; called with the roots
\* this Dataworker computes for the unchanged chain state, all three match.
C9_ValidateReportsEachRoot ==
    (ret.op = "validateRootBundle" /\ ret.value.status = "ok") =>
        ret.value.result = [r \in RootNames |-> r \notin ret.foreign]

CurrentSlowRelayLeaves ==
    LET root == buildSlowRelayRoot(spokePoolClients)
    IN IF root.status = "ok" /\ root.result # Null THEN root.result.leaves ELSE <<>>

SubmittedFor(leaf) ==
    Len(SelectSeq(multiCallBundler, LAMBDA transaction : transaction.leaf = leaf))

\* C10: a leaf's settlement transaction is submitted at most once, and after
\* an execute call every leaf of that root type has been submitted.
C10_LeavesExecutedOnce ==
    /\ \A n \in DOMAIN CurrentSlowRelayLeaves :
          SubmittedFor(CurrentSlowRelayLeaves[n]) <= 1
    /\ ret.op = "executeSlowRelayLeaves" =>
          \A n \in DOMAIN CurrentSlowRelayLeaves :
              SubmittedFor(CurrentSlowRelayLeaves[n]) = 1

(***************************************************************************)
(* Each valid fill is recorded once, under its own key                     *)
(***************************************************************************)
ListUnder(fillsToRefund, repaymentChainId, relayer) ==
    IF repaymentChainId \in DOMAIN fillsToRefund
    THEN IF relayer \in DOMAIN fillsToRefund[repaymentChainId]
         THEN fillsToRefund[repaymentChainId][relayer]
         ELSE <<>>
    ELSE <<>>

Occurrences(list, x) == Cardinality({i \in DOMAIN list : list[i] = x})

\* C11: after a successful _loadData every valid fill event is in the
\* fills-to-refund mapping exactly once (as many times as the destination view
\* lists it), all of it in the list under (fill.repaymentChainId, fill.relayer):
\* re-scanning the destination's fills for another origin chain adds no copy,
\* and fills of different origin/destination pairs share a list without
\* overwriting each other.
C11_EachValidFillOnce ==
    LoadDataReturned =>
        \A d \in ChainIds : \A fill \in Range(spokePoolClients[d].fills) :
            (~fill.isSlowRelay /\ MatchesSomeDeposit(fill, d)) =>
                /\ Occurrences(ListUnder(ret.value.fillsToRefund,
                                         fill.repaymentChainId, fill.relayer), fill)
                       = Occurrences(spokePoolClients[d].fills, fill)
                /\ Occurrences(AllRecordedFills(ret.value.fillsToRefund), fill)
                       = Occurrences(spokePoolClients[d].fills, fill)

\* Two valid fills of different origin/destination pairs by one relayer with
\* one repayment chain, both kept in that one list.
C11_Witness ==
    /\ LoadDataReturned
    /\ \E r \in DOMAIN ret.value.fillsToRefund :
          \E a \in DOMAIN ret.value.fillsToRefund[r] :
              \E i, j \in DOMAIN ret.value.fillsToRefund[r][a] :
                  LET f == ret.value.fillsToRefund[r][a][i]
                      g == ret.value.fillsToRefund[r][a][j]
                  IN /\ f.originChainId # g.originChainId
                     /\ f.destinationChainId # g.destinationChainId
                     /\ Len(ret.value.fillsToRefund[r][a]) = 2

====
